---------------------------- MODULE Spec2Model ----------------------------
(***************************************************************************)
(* Model of the client-onboarding strategy endpoint                        *)
(* (src/src/app/api/generate-strategy/route.ts): the URL classifier, the   *)
(* generic content fetcher, the meeting-recording (Fathom) retriever, the  *)
(* content aggregator (POST) and the strategy generator.                   *)
(*                                                                         *)
(* Strings.  A JavaScript string is modelled as a run-length encoded       *)
(* sequence of tokens, Text == Seq([s : STRING, n : Nat \ {0}]): the run   *)
(* [s |-> "x", n |-> 25000] is the token "x" repeated 25000 times.  The    *)
(* length of a text in characters is the sum of Len(s) * n, so the caps    *)
(* of the code (20000, 10000) keep their real values.  Literals of the     *)
(* code are split into tokens at the phrases the properties look for.      *)
(* The value null is the one-run sequence Null, whose run has n = 0 and    *)
(* which no string operation produces.                                     *)
(***************************************************************************)
EXTENDS Integers, Sequences, FiniteSets, TLC

----------------------------------------------------------------------------
(* Bounds of the model *)

\* number of POST invocations followed in one process
MaxRequests == 2

\* deepest nesting level of the values given to findTranscriptInObject
MaxLevel == 15

----------------------------------------------------------------------------
(* Strings *)

Null == << [s |-> "", n |-> 0] >>

Lit(str) == << [s |-> str, n |-> 1] >>

Rep(str, k) == IF k <= 0 THEN << >> ELSE << [s |-> str, n |-> k] >>

\* JavaScript truthiness of a value of type string | null
Truthy(t) == t # Null /\ t # << >>

RECURSIVE Length(_)
Length(t) ==
  IF t = << >> THEN 0
  ELSE Len(t[1].s) * t[1].n + Length(Tail(t))

\* String.prototype.slice(0, k)
RECURSIVE Slice(_, _)
Slice(t, k) ==
  IF t = << >> \/ k <= 0 THEN << >>
  ELSE LET w == Len(t[1].s) * t[1].n
       IN  IF w <= k THEN << t[1] >> \o Slice(Tail(t), k - w)
           ELSE Rep(t[1].s, k \div Len(t[1].s))

\* String.prototype.includes for a phrase that is a token of the model
Includes(t, phrase) == \E i \in 1..Len(t) : t[i].s = phrase /\ t[i].n > 0

\* t starts with the text p
StartsWith(t, p) == Len(t) >= Len(p) /\ SubSeq(t, 1, Len(p)) = p

\* the tokens of a host name that contain "google.com"
GoogleHosts == {"docs.google.com", "drive.google.com", "www.google.com"}

\* url.includes("google.com")
IncludesGoogle(url) == \E i \in 1..Len(url) : url[i].s \in GoogleHosts

\* url.includes("fathom.video")
IncludesFathom(url) == Includes(url, "fathom.video")

----------------------------------------------------------------------------
(* URL Classifier: convertToFetchableUrl *)

\* the character class [a-zA-Z0-9_-]
IdToks == {"a", "Z", "9", "_", "-"}

\* the longest prefix of t made of identifier characters: ([a-zA-Z0-9_-]+)
RECURSIVE IdPrefix(_)
IdPrefix(t) ==
  IF t = << >> \/ t[1].s \notin IdToks THEN << >>
  ELSE << t[1] >> \o IdPrefix(Tail(t))

\* the regular expression host\/path\/([a-zA-Z0-9_-]+) matches at token i
MatchAt(url, i, host, paths) ==
  /\ i + 2 <= Len(url)
  /\ url[i].s = host
  /\ url[i + 1].s \in paths
  /\ url[i + 2].s \in IdToks

\* String.prototype.match without the g flag: the leftmost match, as the
\* captured group; << >> when there is no match (a capture is never empty)
RegexCapture(url, host, paths) ==
  LET S == {i \in 1..Len(url) : MatchAt(url, i, host, paths)}
  IN  IF S = {} THEN << >>
      ELSE LET i == CHOOSE j \in S : \A k \in S : j <= k
           IN  IdPrefix(SubSeq(url, i + 2, Len(url)))

DocsExport(id) ==
  Lit("https://") \o Lit("docs.google.com") \o Lit("/document/d/") \o id
    \o Lit("/export?format=txt")

SlidesExport(id) ==
  Lit("https://") \o Lit("docs.google.com") \o Lit("/presentation/d/") \o id
    \o Lit("/export?format=txt")

DriveDownload(id) ==
  Lit("https://") \o Lit("drive.google.com") \o Lit("/uc?export=download&id=")
    \o id

FathomTag == Lit("FATHOM_URL:")

convertToFetchableUrl(url) ==
  LET docsMatch   == RegexCapture(url, "docs.google.com", {"/document/d/"})
      slidesMatch == RegexCapture(url, "docs.google.com", {"/presentation/d/"})
      driveMatch  == RegexCapture(url, "drive.google.com", {"/file/d/"})
  IN  IF docsMatch # << >> THEN DocsExport(docsMatch)
      ELSE IF slidesMatch # << >> THEN SlidesExport(slidesMatch)
      ELSE IF driveMatch # << >> THEN DriveDownload(driveMatch)
      ELSE IF IncludesFathom(url) THEN FathomTag \o url
      ELSE url

----------------------------------------------------------------------------
(* JSON values: [t : type, v : payload].  The payload of a string is its   *)
(* Text, of an array the sequence of its elements, of an object the        *)
(* sequence of its [k, v] properties in enumeration order, else << >>.     *)

JNull == [t |-> "null", v |-> << >>]

JUndef == [t |-> "undef", v |-> << >>]

JStr(text) == [t |-> "str", v |-> text]

JArr(items) == [t |-> "arr", v |-> items]

JObj(props) == [t |-> "obj", v |-> props]

\* JavaScript truthiness of a JSON value
JTruthy(j) ==
  CASE j.t = "null" -> FALSE
    [] j.t = "undef" -> FALSE
    [] j.t = "str" -> j.v # << >>
    [] OTHER -> TRUE

\* 'key' in obj
HasKey(j, key) == j.t = "obj" /\ \E i \in 1..Len(j.v) : j.v[i].k = key

\* obj.key, undefined when obj has no such property or is not an object
Get(j, key) ==
  IF HasKey(j, key)
  THEN j.v[CHOOSE i \in 1..Len(j.v) : j.v[i].k = key].v
  ELSE JUndef

\* x || fallback, for an optional string property interpolated in a template
StrOr(j, fallback) == IF j.t = "str" /\ j.v # << >> THEN j.v ELSE fallback

\* one entry of the transcript array: `[${timestamp}] ${speaker}: ${text}`
FormatEntry(entry) ==
  LET speaker   == StrOr(Get(Get(entry, "speaker"), "display_name"), Lit("Speaker"))
      text      == StrOr(Get(entry, "text"), << >>)
      timestamp == StrOr(Get(entry, "timestamp"), << >>)
  IN  Lit("[") \o timestamp \o Lit("] ") \o speaker \o Lit(": ") \o text

\* data.map(FormatEntry).join('\n')
RECURSIVE JoinLines(_)
JoinLines(items) ==
  IF items = << >> THEN << >>
  ELSE IF Len(items) = 1 THEN FormatEntry(items[1])
  ELSE FormatEntry(items[1]) \o Lit("\n") \o JoinLines(Tail(items))

\* JSON.stringify(data, null, 2) at nesting level lvl
RECURSIVE Stringify(_, _)
RECURSIVE StringifyItems(_, _, _)
StringifyItems(items, lvl, isObj) ==
  IF items = << >> THEN << >>
  ELSE LET head == IF isObj
                   THEN Lit("\"") \o Lit(items[1].k) \o Lit("\": ")
                          \o Stringify(items[1].v, lvl)
                   ELSE Stringify(items[1], lvl)
       IN  Rep(" ", 2 * lvl) \o head
             \o (IF Len(items) > 1 THEN Lit(",") ELSE << >>) \o Lit("\n")
             \o StringifyItems(Tail(items), lvl, isObj)

Stringify(j, lvl) ==
  CASE j.t = "str" -> Lit("\"") \o j.v \o Lit("\"")
    [] j.t = "arr" ->
         IF j.v = << >> THEN Lit("[]")
         ELSE Lit("[") \o Lit("\n") \o StringifyItems(j.v, lvl + 1, FALSE)
                \o Rep(" ", 2 * lvl) \o Lit("]")
    [] j.t = "obj" ->
         IF j.v = << >> THEN Lit("{}")
         ELSE Lit("{") \o Lit("\n") \o StringifyItems(j.v, lvl + 1, TRUE)
                \o Rep(" ", 2 * lvl) \o Lit("}")
    [] OTHER -> Lit("null")

formatFathomTranscript(data) ==
  IF data.t = "str" THEN data.v
  ELSE IF data.t = "arr" THEN JoinLines(data.v)
  ELSE IF HasKey(data, "transcript") /\ Get(data, "transcript").t = "str"
       THEN Get(data, "transcript").v
  ELSE IF HasKey(data, "transcript") /\ Get(data, "transcript").t = "arr"
       THEN JoinLines(Get(data, "transcript").v)
  ELSE Stringify(data, 0)

\* the tokens that contain a colon, for obj.includes(':')
ColonToks == {": ", ":", "\": "}

IncludesColon(t) == \E i \in 1..Len(t) : t[i].s \in ColonToks

\* the values of an array or an object, in enumeration order: Object.values
Values(j) ==
  IF j.t = "arr" THEN j.v
  ELSE IF j.t = "obj" THEN [i \in 1..Len(j.v) |-> j.v[i].v]
  ELSE << >>

\* the recursion depth findTranscriptInObject allows (line 125)
MaxDepth == 10

\* TooDeep without a bound
TooDeepNever(depth) == FALSE

\* line 125: depth > 10
TooDeep(depth) == depth > MaxDepth

\* findTranscriptInObject(obj, depth): the transcript text, or Null
RECURSIVE findTranscriptInObject(_, _)
RECURSIVE FirstIn(_, _)
FirstIn(items, depth) ==
  IF items = << >> THEN Null
  ELSE LET result == findTranscriptInObject(items[1], depth)
       IN  IF Truthy(result) THEN result ELSE FirstIn(Tail(items), depth)

findTranscriptInObject(obj, depth) ==
  IF TooDeep(depth) THEN Null
  ELSE IF obj.t = "str" /\ Length(obj.v) > 500 /\ IncludesColon(obj.v) THEN obj.v
  ELSE IF /\ obj.t = "arr"
          /\ Len(obj.v) > 0
          /\ obj.v[1].t = "obj"
          /\ (HasKey(obj.v[1], "text") \/ HasKey(obj.v[1], "speaker"))
       THEN formatFathomTranscript(obj)
  ELSE IF obj.t = "arr" /\ Truthy(FirstIn(obj.v, depth + 1))
       THEN FirstIn(obj.v, depth + 1)
  ELSE IF obj.t \in {"arr", "obj"}
       THEN LET transcript == Get(obj, "transcript")
            IN  IF transcript.t = "str" /\ Length(transcript.v) > 100
                THEN transcript.v
                ELSE IF transcript.t = "arr"
                THEN formatFathomTranscript(transcript)
                ELSE FirstIn(Values(obj), depth + 1)
  ELSE Null

----------------------------------------------------------------------------
(* Markup stripping of the generic fetcher and of the website branch *)

ScriptToks == {"<script>s</script>"}

StyleToks == {"<style>c</style>"}

TagToks == {"<h1>", "</h1>", "<p>", "</p>"}

SpaceToks == {" ", "\n"}

\* .replace(/<script[^>]*>[\s\S]*?<\/script>/gi, "") and the same for style
DropBlocks(t) == SelectSeq(t, LAMBDA r : r.s \notin ScriptToks \cup StyleToks)

\* .replace(/<[^>]+>/g, " ")
TagsToSpace(t) ==
  [i \in 1..Len(t) |-> IF t[i].s \in TagToks THEN [s |-> " ", n |-> t[i].n] ELSE t[i]]

\* .replace(/\s+/g, " "): every maximal run of white space becomes one
\* space; equal neighbouring tokens are kept as one run
RECURSIVE Collapse(_)
Collapse(t) ==
  IF t = << >> THEN << >>
  ELSE LET rest == Collapse(Tail(t))
           head == IF t[1].s \in SpaceToks THEN [s |-> " ", n |-> 1] ELSE t[1]
       IN  IF rest # << >> /\ rest[1].s = head.s
           THEN IF head.s = " " THEN rest
                ELSE << [s |-> head.s, n |-> head.n + rest[1].n] >> \o Tail(rest)
           ELSE << head >> \o rest

\* .trim() of a text whose white space is already collapsed
Trim(t) ==
  LET a == IF t # << >> /\ t[1].s = " " THEN Tail(t) ELSE t
  IN  IF a # << >> /\ a[Len(a)].s = " " THEN SubSeq(a, 1, Len(a) - 1) ELSE a

StripHtml(t) == Trim(Collapse(TagsToSpace(DropBlocks(t))))

\* the cap of fetchLinkContent on fetched content
LinkContentCap == 20000

\* the cap of the website branch of POST
WebsiteContentCap == 10000

----------------------------------------------------------------------------
(* The outside world: what a request may answer *)

ShortPlain == Rep("x", 120)

LongPlain == Rep("x", 25000)

HtmlPage ==
  Lit("<h1>") \o Rep("x", 40) \o Lit("</h1>") \o Rep(" ", 3)
    \o Lit("<script>s</script>") \o Lit("<p>") \o Rep("y", 60) \o Lit("</p>")

LongHtml == Lit("<p>") \o Rep("x", 30000) \o Lit("</p>")

ErrorPage == Lit("<h1>") \o Lit("Not Found") \o Lit("</h1>")

\* a network error: fetch rejects
NetErr == [err |-> TRUE, status |-> 0, ctype |-> "", body |-> << >>]

Resp(status, ctype, body) ==
  [err |-> FALSE, status |-> status, ctype |-> ctype, body |-> body]

\* response.ok
Ok(r) == ~r.err /\ r.status >= 200 /\ r.status <= 299

\* contentType.includes("text/plain")
PlainTypes == {"text/plain", "text/plain; charset=utf-8"}

HttpResponses ==
  {NetErr, Resp(404, "text/html", ErrorPage), Resp(500, "text/html", ErrorPage)}
    \cup {Resp(200, "text/plain; charset=utf-8", b) : b \in {<< >>, ShortPlain, LongPlain}}
    \cup {Resp(200, "text/html", b) : b \in {HtmlPage, LongHtml}}

\* transcript entries of the recording service
Entry1 ==
  JObj(<< [k |-> "speaker", v |-> JObj(<< [k |-> "display_name", v |-> JStr(Lit("Ann"))] >>)],
          [k |-> "text", v |-> JStr(Lit("hello"))],
          [k |-> "timestamp", v |-> JStr(Lit("00:01"))] >>)

Entry2 == JObj(<< [k |-> "text", v |-> JStr(Lit("bye"))] >>)

\* bodies of a successful recording-service API answer; "bad" is a body
\* that is not JSON, so that response.json() throws
ApiBodies ==
  { [valid |-> TRUE, json |-> JObj(<< [k |-> "transcript", v |-> JStr(Rep("t", 300))] >>)],
    [valid |-> TRUE, json |-> JObj(<< [k |-> "transcript", v |-> JArr(<< Entry1, Entry2 >>)] >>)],
    [valid |-> TRUE, json |-> JObj(<< [k |-> "id", v |-> JStr(Lit("c1"))] >>)],
    [valid |-> TRUE, json |-> JNull],
    [valid |-> FALSE, json |-> JNull] }

\* answers of one API endpoint: [err, status, body]
ApiResponses ==
  { [err |-> TRUE, status |-> 0, body |-> [valid |-> FALSE, json |-> JNull]],
    [err |-> FALSE, status |-> 404, body |-> [valid |-> FALSE, json |-> JNull]] }
    \cup { [err |-> FALSE, status |-> 200, body |-> b] : b \in ApiBodies }

\* one call of the recent-calls listing
Call(id, shareUrl, transcript) ==
  JObj(<< [k |-> "id", v |-> JStr(id)],
          [k |-> "share_url", v |-> JStr(shareUrl)],
          [k |-> "transcript", v |-> transcript] >>)

OtherShare == Lit("https://") \o Lit("fathom.video") \o Lit("/share/") \o Rep("Z", 2)

\* answers of the recent-calls listing when looking for shareId
ListResponses(shareId) ==
  LET here == Lit("https://") \o Lit("fathom.video") \o Lit("/share/") \o shareId
      t    == JArr(<< Entry1 >>)
  IN  { [err |-> TRUE, status |-> 0, body |-> [valid |-> FALSE, json |-> JNull]],
        [err |-> FALSE, status |-> 500, body |-> [valid |-> FALSE, json |-> JNull]] }
        \cup { [err |-> FALSE, status |-> 200, body |-> [valid |-> TRUE, json |-> j]] :
               j \in { JObj(<< [k |-> "calls", v |-> JArr(<< >>)] >>),
                       JArr(<< >>),
                       JArr(<< Call(Rep("Z", 2), OtherShare, t) >>),
                       JArr(<< Call(Rep("Z", 2), OtherShare, t), Call(shareId, OtherShare, t) >>),
                       JArr(<< Call(Rep("Z", 2), here, JNull), Call(Rep("Z", 3), here, t) >>) } }

\* what the regular expressions of fetchLinkContent find in the share page:
\* callId, the group of the call-id pattern (<< >> when it does not match);
\* embedded, the group of the transcript pattern; nextData, the group of
\* the page-data pattern (present: it matched, valid: JSON.parse accepts it)
NoJson == [present |-> FALSE, valid |-> FALSE, json |-> JNull]

BadJson == [present |-> TRUE, valid |-> FALSE, json |-> JNull]

GoodJson(j) == [present |-> TRUE, valid |-> TRUE, json |-> j]

Page(callId, embedded, nextData) ==
  [callId |-> callId, embedded |-> embedded, nextData |-> nextData]

CallUuid == Lit("0a1b2c3d-0000-4000-8000-00000000000f")

\* page data holding a transcript two levels down, and page data without
PageDataWith ==
  JObj(<< [k |-> "props", v |-> JObj(<< [k |-> "call", v |->
            JObj(<< [k |-> "transcript", v |-> JArr(<< Entry1, Entry2 >>)] >>)] >>)] >>)

PageDataWithout ==
  JObj(<< [k |-> "props", v |-> JObj(<< [k |-> "title", v |-> JStr(Lit("Call"))] >>)] >>)

Pages ==
  { Page(<< >>, NoJson, NoJson),
    Page(CallUuid, NoJson, NoJson),
    Page(CallUuid, GoodJson(JArr(<< Entry1 >>)), GoodJson(PageDataWith)),
    Page(<< >>, GoodJson(JArr(<< Entry1 >>)), NoJson),
    Page(<< >>, BadJson, GoodJson(PageDataWith)),
    Page(<< >>, BadJson, GoodJson(PageDataWithout)),
    Page(<< >>, NoJson, BadJson) }

\* answers of the share page: [err, status, page]
PageResponses ==
  { [err |-> TRUE, status |-> 0, page |-> Page(<< >>, NoJson, NoJson)],
    [err |-> FALSE, status |-> 404, page |-> Page(<< >>, NoJson, NoJson)] }
    \cup { [err |-> FALSE, status |-> 200, page |-> p] : p \in Pages }

----------------------------------------------------------------------------
(* Messages and placeholders of the code *)

SharingHint == Lit("Anyone with the link can view")

GoogleMsg ==
  Lit("Google link not accessible. Make sure sharing is set to \"")
    \o SharingHint \o Lit("\"")

FailedMsg(status) == Lit("Failed to fetch: ") \o Lit(ToString(status))

\* the message of the TypeError of a rejected fetch
NetMsg == Lit("fetch failed")

NoKeyMsg ==
  Lit("Fathom API key not configured. Add FATHOM_API_KEY to your environment variables.")

CouldNotMsg(shareId) ==
  Lit("Could not fetch ") \o Lit("transcript") \o Lit(" for share ID: ") \o shareId
    \o Lit(". The share link ID may not be accessible via API. Try using the call ID from your Fathom dashboard or ")
    \o Lit("paste") \o Lit(" the transcript directly.")

PageMsg == Lit("Could not extract ") \o Lit("transcript") \o Lit(" from Fathom share page")

FathomPlaceholder(msg) ==
  Lit("[") \o Lit("Could not fetch Fathom ") \o Lit("transcript") \o Lit(". Error: ")
    \o msg \o Lit(". Please copy the transcript from Fathom and ") \o Lit("paste")
    \o Lit(" it directly.") \o Lit("]")

LinkPlaceholder(url) ==
  Lit("[") \o Lit("Could not fetch content from: ") \o url \o Lit("]")

TranscribeErrorPlaceholder == Lit("[") \o Lit("Error transcribing audio file") \o Lit("]")

FileUploadedPlaceholder(name) == Lit("[") \o Lit("File uploaded: ") \o name \o Lit("]")

DeckErrorPlaceholder == Lit("[") \o Lit("Error processing audit deck") \o Lit("]")

WebsiteErrorPlaceholder == Lit("[") \o Lit("Error fetching website content") \o Lit("]")

SocialPlaceholder(url) == Lit("[") \o Lit("Social profile URL provided: ") \o url \o Lit("]")

NoTextMsg == Lit("No text response from Claude")

InvalidFormatMsg == Lit("Invalid strategy format from AI")

GenericErrorBody == Lit("Failed to generate strategy")

\* a text in square brackets
Bracketed(t) == Len(t) >= 2 /\ t[1].s = "[" /\ t[Len(t)].s = "]"

----------------------------------------------------------------------------
(* Submissions *)

Hello == Lit("Hello world")

LongTranscript == Rep("w", 40000)

Id1 == Rep("a", 1) \o Rep("9", 2)

Id2 == Rep("Z", 1) \o Rep("_", 1)

DocsUrl ==
  Lit("https://") \o Lit("docs.google.com") \o Lit("/document/d/") \o Id1 \o Lit("/edit")

SlidesUrl ==
  Lit("https://") \o Lit("docs.google.com") \o Lit("/presentation/d/") \o Id1 \o Lit("/edit")

DriveUrl ==
  Lit("https://") \o Lit("drive.google.com") \o Lit("/file/d/") \o Id1 \o Lit("/view")

GenericUrl == Lit("https://") \o Lit("example.com") \o Lit("/deck")

FathomShareUrl == Lit("https://") \o Lit("fathom.video") \o Lit("/share/") \o Id2

FathomBareUrl == Lit("https://") \o Lit("fathom.video") \o Lit("/r/") \o Id2

SiteUrl == Lit("https://") \o Lit("acme.test")

\* a URL of another host that mentions a Google host in its query string
RefUrl ==
  Lit("https://") \o Lit("example.com") \o Lit("/deck") \o Lit("?ref=")
    \o Lit("www.google.com")

MeetingInputs ==
  { [type |-> Null, content |-> Null, file |-> FALSE],
    [type |-> Lit("transcript"), content |-> Hello, file |-> FALSE],
    [type |-> Lit("transcript"), content |-> Hello, file |-> TRUE],
    [type |-> Lit("transcript"), content |-> LongTranscript, file |-> FALSE],
    [type |-> Lit("transcript"), content |-> << >>, file |-> FALSE],
    [type |-> Lit("link"), content |-> DocsUrl, file |-> FALSE],
    [type |-> Lit("link"), content |-> GenericUrl, file |-> TRUE],
    [type |-> Lit("link"), content |-> FathomShareUrl, file |-> FALSE],
    [type |-> Lit("link"), content |-> FathomBareUrl, file |-> FALSE],
    [type |-> Lit("link"), content |-> Null, file |-> FALSE],
    [type |-> Lit("file"), content |-> Null, file |-> TRUE],
    [type |-> Lit("file"), content |-> Hello, file |-> FALSE] }

PdfName == Lit("deck") \o Lit(".pdf")

DocxName == Lit("deck") \o Lit(".docx")

AuditInputs ==
  { [link |-> Null, deck |-> Null],
    [link |-> DocsUrl, deck |-> Null],
    [link |-> DriveUrl, deck |-> PdfName],
    [link |-> GenericUrl, deck |-> Null],
    [link |-> GenericUrl, deck |-> PdfName],
    [link |-> RefUrl, deck |-> Null],
    [link |-> FathomShareUrl, deck |-> Null],
    [link |-> << >>, deck |-> PdfName],
    [link |-> Null, deck |-> PdfName],
    [link |-> Null, deck |-> DocxName] }

\* the required fields with the website and the social profile
ProfileInputs ==
  { [clientName |-> Lit("Acme"), industry |-> Lit("SaaS"), websiteUrl |-> SiteUrl, socialProfile |-> SiteUrl],
    [clientName |-> Lit("Acme"), industry |-> Lit("SaaS"), websiteUrl |-> SiteUrl, socialProfile |-> << >>],
    [clientName |-> Lit("Acme"), industry |-> Lit("SaaS"), websiteUrl |-> << >>, socialProfile |-> << >>],
    [clientName |-> << >>, industry |-> Lit("SaaS"), websiteUrl |-> << >>, socialProfile |-> SiteUrl],
    [clientName |-> Lit("Acme"), industry |-> Null, websiteUrl |-> SiteUrl, socialProfile |-> Null] }

Submissions ==
  { [clientName |-> p.clientName, industry |-> p.industry,
     websiteUrl |-> p.websiteUrl, socialProfile |-> p.socialProfile,
     meetingRecordingType |-> m.type, meetingRecordingContent |-> m.content,
     meetingRecordingFile |-> m.file,
     auditDeck |-> a.deck, auditLink |-> a.link] :
    p \in ProfileInputs, m \in MeetingInputs, a \in AuditInputs }

NoSubmission ==
  [clientName |-> Null, industry |-> Null, websiteUrl |-> Null, socialProfile |-> Null,
   meetingRecordingType |-> Null, meetingRecordingContent |-> Null,
   meetingRecordingFile |-> FALSE, auditDeck |-> Null, auditLink |-> Null]

----------------------------------------------------------------------------
(* State *)

VARIABLES
  env,            \* process.env: which API keys are configured
  anthropic,      \* the module variable anthropic: 0 while null, else the
                  \* instance, named by the invocation that constructed it
  openai,         \* the module variable openai: TRUE once constructed
  served,         \* number of POST invocations answered so far
  pc,             \* position of the running POST invocation
  sub,            \* the form fields of the running invocation
  collectedData,  \* the record POST builds
  fl,             \* the running call of fetchLinkContent
  log,            \* the requests that call has issued, in order
  lastOut,        \* how the last request of that call ended
  ops,            \* the external operations this invocation has performed
  caught,         \* message of the error the running branch of POST caught
  prompt,         \* the values generateStrategy put into the prompt
  completions,    \* number of completion requests of this invocation
  message,        \* what the completion request returned
  failure,        \* message of the error the outer catch of POST caught
  response,       \* the HTTP answer of this invocation
  strategy,       \* Home: the strategy shown, null while there is none
  isLoading,      \* Home: a submission is under way
  error,          \* Home: the message shown, Null while there is none
  form,           \* OnboardingForm: the values of its required inputs
  inFlight,       \* requests of handleSubmit that await their answer
  answer          \* the answer the last settled request got

vars ==
  << env, anthropic, openai, served, pc, sub, collectedData, fl, log, lastOut,
     ops, caught, prompt, completions, message, failure, response,
     strategy, isLoading, error, form, inFlight, answer >>

process == << env, anthropic, openai, served >>

gen == << prompt, completions, message, failure, response >>

client == << strategy, isLoading, error, form, inFlight, answer >>

\* OnboardingForm as mounted: both required inputs empty
EmptyForm == [clientName |-> << >>, industry |-> << >>]

NoAnswer == [err |-> FALSE, status |-> 0, body |-> [valid |-> FALSE, json |-> JNull]]

NoData ==
  [meetingTranscript |-> Null, auditDeckContent |-> Null,
   websiteContent |-> Null, socialContent |-> Null]

NoCall ==
  [caller |-> "", url |-> << >>, fetchUrl |-> << >>, at |-> "none",
   id |-> << >>, ep |-> 0, thrown |-> FALSE, result |-> << >>]

NoMessage == [returned |-> FALSE, content |-> << >>]

NoPrompt ==
  [clientName |-> Null, industry |-> Null, meetingTranscript |-> Null,
   auditDeckContent |-> Null, websiteContent |-> Null, socialContent |-> Null]

\* the answer of POST: its status and the properties of its JSON body, an
\* absent property being Null
NoResponse == [status |-> 0, body |-> "", error |-> Null, details |-> Null]

Init ==
  /\ env \in [anthropicKey : BOOLEAN, fathomKey : BOOLEAN]
  /\ anthropic = 0
  /\ openai = FALSE
  /\ served = 0
  /\ pc = "idle"
  /\ sub = NoSubmission
  /\ collectedData = NoData
  /\ fl = NoCall
  /\ log = << >>
  /\ lastOut = "none"
  /\ ops = {}
  /\ caught = Null
  /\ prompt = NoPrompt
  /\ completions = 0
  /\ message = NoMessage
  /\ failure = Null
  /\ response = NoResponse
  /\ strategy = JNull
  /\ isLoading = FALSE
  /\ error = Null
  /\ form = EmptyForm
  /\ inFlight = 0
  /\ answer = NoAnswer

----------------------------------------------------------------------------
(* POST: reading the form (lines 308-331) *)

Receive ==
  /\ pc = "idle"
  /\ served < MaxRequests
  /\ \E s \in Submissions : sub' = s
  /\ collectedData' = NoData
  /\ pc' = "meeting"
  /\ fl' = NoCall
  /\ log' = << >>
  /\ lastOut' = "none"
  /\ ops' = {}
  /\ caught' = Null
  /\ prompt' = NoPrompt
  /\ completions' = 0
  /\ message' = NoMessage
  /\ failure' = Null
  /\ response' = NoResponse
  /\ UNCHANGED << process, client >>

\* request.formData() rejects: the body is not a form
ReceiveMalformed ==
  /\ pc = "idle"
  /\ served < MaxRequests
  /\ sub' = NoSubmission
  /\ collectedData' = NoData
  /\ pc' = "done"
  /\ fl' = NoCall
  /\ log' = << >>
  /\ lastOut' = "none"
  /\ ops' = {}
  /\ caught' = Null
  /\ prompt' = NoPrompt
  /\ completions' = 0
  /\ message' = NoMessage
  /\ failure' = Lit("Failed to parse body as FormData.")
  /\ response' = [status |-> 500, body |-> "error", error |-> GenericErrorBody,
                  details |-> Null]
  /\ UNCHANGED << process, client >>

----------------------------------------------------------------------------
(* fetchLinkContent (lines 194-294) and fetchFathomTranscript (54-122) *)

\* fetchUrl.replace("FATHOM_URL:", "") of a text that starts with the tag
FathomUrlOf(fetchUrl) == Tail(fetchUrl)

\* fathomUrl.match(/fathom\.video\/(?:share|call|recording)\/([a-zA-Z0-9_-]+)/)
ShareIdOf(fathomUrl) ==
  RegexCapture(fathomUrl, "fathom.video", {"/share/", "/call/", "/recording/"})

\* POST calls fetchLinkContent(url): the call starts at its first request
CallFetchLink(caller, url) ==
  LET fetchUrl == convertToFetchableUrl(url)
  IN  /\ fl' = [caller |-> caller, url |-> url, fetchUrl |-> fetchUrl,
                at |-> IF StartsWith(fetchUrl, FathomTag) THEN "page" ELSE "generic",
                id |-> << >>, ep |-> 0, thrown |-> FALSE, result |-> << >>]
      /\ pc' = "fetchLink"
      /\ log' = << >>
      /\ lastOut' = "none"
      /\ ops' = ops \cup {"fetchLink:" \o caller}

\* fetchLinkContent ends and the branch of POST that called it goes on:
\* the result is stored, or the placeholder when the call threw
\* (lines 339-344 and 371-376)
Deliver(thrown, val) ==
  /\ fl' = [fl EXCEPT !.at = "returned", !.thrown = thrown, !.result = val]
  /\ caught' = IF thrown THEN val ELSE caught
  /\ IF fl.caller = "meeting"
     THEN /\ collectedData' =
               [collectedData EXCEPT !.meetingTranscript =
                  IF thrown THEN LinkPlaceholder(sub.meetingRecordingContent) ELSE val]
          /\ pc' = "audit"
     ELSE /\ collectedData' =
               [collectedData EXCEPT !.auditDeckContent =
                  IF thrown THEN LinkPlaceholder(sub.auditLink) ELSE val]
          /\ pc' = "website"

\* the text fetchLinkContent makes of a successful generic response
GenericContent(r) ==
  IF r.ctype \in PlainTypes THEN Slice(r.body, LinkContentCap)
  ELSE Slice(StripHtml(r.body), LinkContentCap)

\* the error fetchLinkContent throws on a non-success status
StatusError(url, r) ==
  IF IncludesGoogle(url) THEN GoogleMsg ELSE FailedMsg(r.status)

Outcome(r) == IF r.err THEN "neterr" ELSE IF Ok(r) THEN "ok" ELSE "status"

\* lines 260-293: the generic path
GenericFetch ==
  /\ pc = "fetchLink"
  /\ fl.at = "generic"
  /\ \E r \in HttpResponses :
       /\ log' = Append(log, [kind |-> "generic", ep |-> 0, id |-> fl.fetchUrl,
                                out |-> IF Ok(r) THEN "data" ELSE "none"])
       /\ lastOut' = Outcome(r)
       /\ IF r.err THEN Deliver(TRUE, NetMsg)
          ELSE IF ~Ok(r) THEN Deliver(TRUE, StatusError(fl.url, r))
          ELSE Deliver(FALSE, GenericContent(r))
  /\ UNCHANGED << process, sub, ops, gen, client >>

\* fetchFathomTranscript(shareId) is called: without an API key it throws
\* at once (lines 55-59), which the catch of fetchLinkContent turns into
\* the placeholder; else the first endpoint is next
EnterApi(shareId) ==
  IF env.fathomKey
  THEN /\ fl' = [fl EXCEPT !.at = "api", !.id = shareId, !.ep = 1]
       /\ UNCHANGED << collectedData, pc, caught >>
  ELSE Deliver(FALSE, FathomPlaceholder(NoKeyMsg))

\* AfterPage letting the error of line 253 escape to the caller
AfterPageThrowing ==
  LET shareId == ShareIdOf(FathomUrlOf(fl.fetchUrl))
  IN  IF shareId # << >> THEN EnterApi(shareId)
      ELSE Deliver(TRUE, PageMsg)

\* lines 247-257: after the page, the API with the share id of the URL
AfterPage ==
  LET shareId == ShareIdOf(FathomUrlOf(fl.fetchUrl))
  IN  IF shareId # << >> THEN EnterApi(shareId)
      ELSE Deliver(FALSE, FathomPlaceholder(PageMsg))

\* LookupByCallId going on with the share identifier of the URL
LookupByShareId(callId) == AfterPage

\* lines 214-218: a call identifier in the page decides the call:
\* return await fetchFathomTranscript(callIdMatch[1])
LookupByCallId(callId) == EnterApi(callId)

\* lines 200-245: the share page is requested and searched; the record of
\* the request tells whether the page gave the transcript, a call
\* identifier, or nothing
FathomPage ==
  /\ pc = "fetchLink"
  /\ fl.at = "page"
  /\ \E r \in PageResponses :
       LET found == findTranscriptInObject(r.page.nextData.json, 0)
           fromPage ==
             /\ Ok(r)
             /\ r.page.callId = << >>
             /\ \/ r.page.embedded.present /\ r.page.embedded.valid
                \/ r.page.nextData.present /\ r.page.nextData.valid /\ Truthy(found)
       IN  /\ log' = Append(log, [kind |-> "page", ep |-> 0, id |-> FathomUrlOf(fl.fetchUrl),
                                    out |-> IF fromPage THEN "data"
                                            ELSE IF Ok(r) /\ r.page.callId # << >>
                                                 THEN "callId" ELSE "none"])
           /\ lastOut' = Outcome(r)
           /\ IF r.err THEN Deliver(FALSE, FathomPlaceholder(NetMsg))
              ELSE IF ~Ok(r) THEN AfterPage
              ELSE IF r.page.callId # << >> THEN LookupByCallId(r.page.callId)
              ELSE IF r.page.embedded.present /\ r.page.embedded.valid
                   THEN Deliver(FALSE, formatFathomTranscript(r.page.embedded.json))
              ELSE IF r.page.nextData.present /\ r.page.nextData.valid /\ Truthy(found)
                   THEN Deliver(FALSE, found)
              ELSE AfterPage
  /\ UNCHANGED << process, sub, ops, gen, client >>

\* the number of endpoint shapes of fetchFathomTranscript (lines 62-67)
NumEndpoints == 4

\* the endpoint shapes, in the order of the array endpoints
EndpointShapes ==
  << "share/{id}/transcript", "calls/{id}/transcript",
     "recordings/{id}/transcript", "calls/{id}" >>

\* ApiYields taking every answered request for a success
ApiYieldsAnyAnswer(r) == ~r.err

\* lines 78-87: the endpoint answered with success and its body is JSON
\* from which data.transcript can be read (response.json() or the property
\* access throws otherwise, which the catch of the loop swallows)
ApiYields(r) == Ok(r) /\ r.body.valid /\ r.body.json.t # "null"

\* ApiResult of the transcript field alone
ApiResultTranscriptOnly(data) == formatFathomTranscript(Get(data, "transcript"))

\* lines 83-86: what fetchFathomTranscript returns for the body of a
\* successful endpoint
ApiResult(data) ==
  IF JTruthy(Get(data, "transcript"))
  THEN formatFathomTranscript(Get(data, "transcript"))
  ELSE formatFathomTranscript(data)

\* what one endpoint attempt gave: data, or nothing
ApiOutcome(r) == IF ApiYields(r) THEN "data" ELSE "none"

\* lines 69-92: one turn of the loop over the endpoints
FathomEndpoint ==
  /\ pc = "fetchLink"
  /\ fl.at = "api"
  /\ \E r \in ApiResponses :
       /\ log' = Append(log, [kind |-> "api", ep |-> fl.ep, id |-> fl.id,
                                out |-> ApiOutcome(r)])
       /\ lastOut' = Outcome(r)
       /\ IF ApiYields(r)
          THEN Deliver(FALSE, ApiResult(r.body.json))
          ELSE /\ fl' = IF fl.ep < NumEndpoints
                        THEN [fl EXCEPT !.ep = fl.ep + 1]
                        ELSE [fl EXCEPT !.at = "list", !.ep = 0]
               /\ UNCHANGED << collectedData, pc, caught >>
  /\ UNCHANGED << process, sub, ops, gen, client >>

\* t occurs in u: u.includes(t)
SubText(u, t) == \E i \in 0..(Len(u) - Len(t)) : SubSeq(u, i + 1, i + Len(t)) = t

\* lines 108-114: the transcript of the first matching call that has one
RECURSIVE MatchingTranscript(_, _)
MatchingTranscript(calls, shareId) ==
  IF calls = << >> THEN JUndef
  ELSE LET call == calls[1]
           hit  == \/ /\ Get(call, "share_url").t = "str"
                      /\ SubText(Get(call, "share_url").v, shareId)
                   \/ Get(call, "id") = JStr(shareId)
       IN  IF hit /\ JTruthy(Get(call, "transcript")) THEN Get(call, "transcript")
           ELSE MatchingTranscript(Tail(calls), shareId)

\* lines 94-121: the recent-calls listing, then the final error
FathomList ==
  /\ pc = "fetchLink"
  /\ fl.at = "list"
  /\ \E r \in ListResponses(fl.id) :
       LET calls == r.body.json
           t     == IF Ok(r) /\ r.body.valid /\ calls.t = "arr"
                    THEN MatchingTranscript(calls.v, fl.id) ELSE JUndef
       IN  /\ log' = Append(log, [kind |-> "list", ep |-> 0, id |-> fl.id,
                                    out |-> IF t # JUndef THEN "data" ELSE "none"])
           /\ lastOut' = Outcome(r)
           /\ IF t # JUndef THEN Deliver(FALSE, formatFathomTranscript(t))
              ELSE Deliver(FALSE, FathomPlaceholder(CouldNotMsg(fl.id)))
  /\ UNCHANGED << process, sub, ops, gen, client >>

\* POST goes on to its next branch: the record of the ended call of
\* fetchLinkContent and of its requests is dropped
Release ==
  /\ fl' = NoCall
  /\ log' = << >>
  /\ lastOut' = "none"

----------------------------------------------------------------------------
(* POST: the meeting recording (lines 333-366) *)

IsInline(s) ==
  s.meetingRecordingType = Lit("transcript") /\ Truthy(s.meetingRecordingContent)

IsLink(s) ==
  ~IsInline(s) /\ s.meetingRecordingType = Lit("link") /\ Truthy(s.meetingRecordingContent)

\* IsFile without the test of the recording type and of the inline text
IsFileAnyType(s) == ~IsLink(s) /\ s.meetingRecordingFile

IsFile(s) ==
  ~IsInline(s) /\ ~IsLink(s) /\ s.meetingRecordingType = Lit("file") /\ s.meetingRecordingFile

MeetingInline ==
  /\ pc = "meeting"
  /\ IsInline(sub)
  /\ collectedData' = [collectedData EXCEPT !.meetingTranscript = sub.meetingRecordingContent]
  /\ pc' = "audit"
  /\ UNCHANGED << process, sub, fl, log, lastOut, ops, caught, gen, client >>

MeetingLink ==
  /\ pc = "meeting"
  /\ IsLink(sub)
  /\ CallFetchLink("meeting", sub.meetingRecordingContent)
  /\ UNCHANGED << process, sub, collectedData, caught, gen, client >>

\* what the speech-to-text service may return as transcription.text
Transcriptions == {Lit("spoken words"), Rep("s", 50000)}

WhisperMsg == Lit("Connection error.")

ReadMsg == Lit("The requested file could not be read")

\* lines 345-365: the uploaded recording is read and transcribed; reading,
\* constructing the client or the transcription request may throw
MeetingFile ==
  /\ pc = "meeting"
  /\ IsFile(sub)
  /\ \/ /\ collectedData' = [collectedData EXCEPT !.meetingTranscript = TranscribeErrorPlaceholder]
        /\ caught' = ReadMsg
        /\ ops' = ops \cup {"read:meetingFile"}
        /\ UNCHANGED openai
     \/ /\ collectedData' = [collectedData EXCEPT !.meetingTranscript = TranscribeErrorPlaceholder]
        /\ caught' = WhisperMsg
        /\ ops' = ops \cup {"read:meetingFile", "transcribe"}
        /\ openai' = TRUE
     \/ \E t \in Transcriptions :
          /\ collectedData' = [collectedData EXCEPT !.meetingTranscript = t]
          /\ ops' = ops \cup {"read:meetingFile", "transcribe"}
          /\ openai' = TRUE
          /\ UNCHANGED caught
  /\ pc' = "audit"
  /\ UNCHANGED << env, anthropic, served, sub, fl, log, lastOut, gen, client >>

MeetingNone ==
  /\ pc = "meeting"
  /\ ~IsInline(sub) /\ ~IsLink(sub) /\ ~IsFile(sub)
  /\ pc' = "audit"
  /\ UNCHANGED << process, sub, collectedData, fl, log, lastOut, ops, caught, gen, client >>

----------------------------------------------------------------------------
(* POST: the audit deck (lines 368-395) *)

AuditLink ==
  /\ pc = "audit"
  /\ Truthy(sub.auditLink)
  /\ CallFetchLink("audit", sub.auditLink)
  /\ caught' = Null
  /\ UNCHANGED << process, sub, collectedData, gen, client >>

\* IsPdf taking every named file for a PDF
IsPdfAnyName(name) == name # << >>

\* auditDeck.name.endsWith(".pdf")
IsPdf(name) == name # << >> /\ name[Len(name)].s = ".pdf"

\* what the PDF routine may return as pdfData.text
PdfTexts == {Lit("Audit findings"), Rep("p", 60000)}

PdfMsg == Lit("Invalid PDF structure")

\* UsesDeck as a fallback that forgets the link
UsesDeckIgnoringLink(s) == s.auditDeck # Null

\* lines 369 and 377: the uploaded deck is used only without a link
UsesDeck(s) == ~Truthy(s.auditLink) /\ s.auditDeck # Null

\* lines 377-394: the uploaded deck is read and, when a PDF, parsed
AuditFile ==
  /\ pc = "audit"
  /\ UsesDeck(sub)
  /\ \/ /\ collectedData' = [collectedData EXCEPT !.auditDeckContent = DeckErrorPlaceholder]
        /\ caught' = ReadMsg
        /\ ops' = ops \cup {"read:auditDeck"}
     \/ /\ IsPdf(sub.auditDeck)
        /\ collectedData' = [collectedData EXCEPT !.auditDeckContent = DeckErrorPlaceholder]
        /\ caught' = PdfMsg
        /\ ops' = ops \cup {"read:auditDeck", "pdfParse"}
     \/ /\ IsPdf(sub.auditDeck)
        /\ \E t \in PdfTexts :
             collectedData' = [collectedData EXCEPT !.auditDeckContent = t]
        /\ ops' = ops \cup {"read:auditDeck", "pdfParse"}
        /\ caught' = Null
     \/ /\ ~IsPdf(sub.auditDeck)
        /\ collectedData' =
             [collectedData EXCEPT !.auditDeckContent = FileUploadedPlaceholder(sub.auditDeck)]
        /\ ops' = ops \cup {"read:auditDeck"}
        /\ caught' = Null
  /\ pc' = "website"
  /\ Release
  /\ UNCHANGED << process, sub, gen, client >>

AuditNone ==
  /\ pc = "audit"
  /\ ~Truthy(sub.auditLink)
  /\ sub.auditDeck = Null
  /\ pc' = "website"
  /\ Release
  /\ caught' = Null
  /\ UNCHANGED << process, sub, collectedData, ops, gen, client >>

----------------------------------------------------------------------------
(* POST: the website and the social profile (lines 397-424) *)

\* what the website may answer
WebResponses ==
  {NetErr, Resp(404, "text/html", ErrorPage), Resp(500, "text/html", ErrorPage),
   Resp(200, "text/html", HtmlPage), Resp(200, "text/html", LongHtml)}

\* lines 405-414: the text POST makes of the website's answer
WebsiteText(r) == Slice(StripHtml(r.body), WebsiteContentCap)

\* lines 422-424
SocialContent(s) ==
  IF Truthy(s.socialProfile) THEN SocialPlaceholder(s.socialProfile) ELSE Null

\* lines 398-424: the website is fetched, then the social profile is noted
Website ==
  /\ pc = "website"
  /\ Truthy(sub.websiteUrl)
  /\ \E r \in WebResponses :
       /\ lastOut' = Outcome(r)
       /\ IF r.err
          THEN /\ collectedData' =
                    [collectedData EXCEPT !.websiteContent = WebsiteErrorPlaceholder,
                                          !.socialContent = SocialContent(sub)]
               /\ caught' = NetMsg
          ELSE /\ collectedData' =
                    [collectedData EXCEPT !.websiteContent = WebsiteText(r),
                                          !.socialContent = SocialContent(sub)]
               /\ caught' = Null
  /\ ops' = ops \cup {"fetch:website"}
  /\ pc' = "generate"
  /\ fl' = NoCall
  /\ log' = << >>
  /\ UNCHANGED << process, sub, gen, client >>

WebsiteNone ==
  /\ pc = "website"
  /\ ~Truthy(sub.websiteUrl)
  /\ collectedData' = [collectedData EXCEPT !.socialContent = SocialContent(sub)]
  /\ pc' = "generate"
  /\ Release
  /\ caught' = Null
  /\ UNCHANGED << process, sub, ops, gen, client >>

----------------------------------------------------------------------------
(* generateStrategy (lines 439-511) and the answer of POST (426-436) *)

\* ${value} in a template literal: null is written "null"
Interp(t) == IF t = Null THEN Lit("null") ELSE t

\* OrElse without the fallback
OrElseNoFallback(t, fallback) == Interp(t)

\* ${value || fallback} in a template literal
OrElse(t, fallback) == IF Truthy(t) THEN t ELSE Lit(fallback)

\* lines 440-457: the values put into the prompt template
PromptOf(s, data) ==
  [clientName        |-> Interp(s.clientName),
   industry          |-> Interp(s.industry),
   meetingTranscript |-> OrElse(data.meetingTranscript, "No meeting transcript provided"),
   auditDeckContent  |-> OrElse(data.auditDeckContent, "No audit deck provided"),
   websiteContent    |-> OrElse(data.websiteContent, "No website content available"),
   socialContent     |-> OrElse(data.socialContent, "No social profile information available")]

\* the prompt as one text (the fixed parts of the template abridged to
\* their headings)
PromptText(p) ==
  Lit("## Client Information\n- **Client Name:** ") \o p.clientName
    \o Lit("\n- **Industry:** ") \o p.industry
    \o Lit("\n\n## Meeting Notes/Transcript\n") \o p.meetingTranscript
    \o Lit("\n\n## Audit Deck Content\n") \o p.auditDeckContent
    \o Lit("\n\n## Website Content\n") \o p.websiteContent
    \o Lit("\n\n## Social Media Presence\n") \o p.socialContent
    \o Lit("\n\n---\n\nBased on all the above information, create a detailed marketing strategy.")

\* messages of the errors the completion client may throw
AuthMsg == Lit("401") \o Lit(" ") \o Lit("authentication") \o Lit("_error: invalid x-api-key")

RateMsg == Lit("429 rate_limit_error: Number of requests has exceeded your rate limit")

NoCredentialMsg ==
  Lit("Could not resolve ") \o Lit("authentication")
    \o Lit(" method. Expected either apiKey or authToken to be set.")

\* the content blocks a completion may return: [type, valid], valid saying
\* whether JSON.parse accepts the text of the block
TextBlock(valid) == [type |-> "text", valid |-> valid]

ToolBlock == [type |-> "tool_use", valid |-> FALSE]

Contents ==
  { << >>, << ToolBlock >>, << TextBlock(TRUE) >>, << TextBlock(FALSE) >>,
    << ToolBlock, TextBlock(TRUE) >>, << TextBlock(FALSE), TextBlock(TRUE) >> }

\* FirstText taking the first block whatever its type
FirstBlock(content) == IF content = << >> THEN 0 ELSE 1

\* message.content.find((block) => block.type === "text"): its index, or 0
FirstText(content) ==
  LET S == {i \in 1..Len(content) : content[i].type = "text"}
  IN  IF S = {} THEN 0 ELSE CHOOSE i \in S : \A j \in S : i <= j

\* lines 430-436: the outer catch of POST
ErrorResponse(msg) ==
  [status |-> 500, body |-> "error", error |-> GenericErrorBody, details |-> Null]

\* line 429
SuccessResponse == [status |-> 200, body |-> "strategy", error |-> Null, details |-> Null]

\* lines 498-511: what generateStrategy makes of the completion's content:
\* the message of the error it throws, or Null when it returns a strategy
ParseError(content) ==
  IF FirstText(content) = 0 THEN NoTextMsg
  ELSE IF ~content[FirstText(content)].valid THEN InvalidFormatMsg
  ELSE Null

\* the errors messages.create may throw, given the configuration
CompletionErrors == IF env.anthropicKey THEN {AuthMsg, RateMsg} ELSE {NoCredentialMsg}

\* getAnthropic constructing a client at every call
getAnthropicFresh == served + 1

\* lines 9-16: the client is constructed when the module variable is null,
\* and the module variable is returned
getAnthropic == IF anthropic = 0 THEN served + 1 ELSE anthropic

\* AfterGenerate trying the completion again after a failure
AfterGenerateRetry(fail) == IF fail # Null THEN "generate" ELSE "done"

\* lines 427-436: generateStrategy is awaited once; its return and the
\* outer catch both end POST with an answer
AfterGenerate(fail) == "done"

\* lines 426-436 with generateStrategy: the prompt is rendered, the client
\* is obtained (getAnthropic, lines 9-16), one completion is requested and
\* its content parsed; every error ends in the outer catch of POST
Generate ==
  /\ pc = "generate"
  /\ prompt' = PromptOf(sub, collectedData)
  /\ \/ \* the constructor of the client throws: no credential
        /\ ~env.anthropicKey
        /\ anthropic = 0
        /\ failure' = NoCredentialMsg
        /\ response' = ErrorResponse(NoCredentialMsg)
        /\ UNCHANGED << anthropic, completions, message, ops >>
     \/ \* the completion request throws
        /\ \E msg \in CompletionErrors :
             /\ failure' = msg
             /\ response' = ErrorResponse(msg)
        /\ anthropic' = getAnthropic
        /\ completions' = completions + 1
        /\ ops' = ops \cup {"completion"}
        /\ UNCHANGED message
     \/ \* the completion request returns content
        /\ env.anthropicKey
        /\ \E content \in Contents :
             /\ message' = [returned |-> TRUE, content |-> content]
             /\ failure' = ParseError(content)
             /\ response' = IF ParseError(content) = Null THEN SuccessResponse
                            ELSE ErrorResponse(ParseError(content))
             /\ ops' = ops \cup {"completion"}
                         \cup (IF FirstText(content) # 0 THEN {"JSON.parse"} ELSE {})
        /\ anthropic' = getAnthropic
        /\ completions' = completions + 1
  /\ pc' = AfterGenerate(failure')
  /\ Release
  /\ caught' = Null
  /\ UNCHANGED << env, openai, served, sub, collectedData, client >>

\* the answer is sent; the process waits for the next invocation
Finish ==
  /\ pc = "done"
  /\ pc' = "idle"
  /\ served' = served + 1
  /\ sub' = NoSubmission
  /\ collectedData' = NoData
  /\ fl' = NoCall
  /\ log' = << >>
  /\ lastOut' = "none"
  /\ ops' = {}
  /\ caught' = Null
  /\ prompt' = NoPrompt
  /\ completions' = 0
  /\ message' = NoMessage
  /\ failure' = Null
  /\ response' = NoResponse
  /\ UNCHANGED << env, anthropic, openai, client >>

----------------------------------------------------------------------------
(* Specification *)

Next ==
  \/ Receive
  \/ ReceiveMalformed
  \/ MeetingInline
  \/ MeetingLink
  \/ MeetingFile
  \/ MeetingNone
  \/ AuditLink
  \/ AuditFile
  \/ AuditNone
  \/ GenericFetch
  \/ FathomPage
  \/ FathomEndpoint
  \/ FathomList
  \/ Website
  \/ WebsiteNone
  \/ Generate
  \/ Finish

Spec == Init /\ [][Next]_vars

----------------------------------------------------------------------------
(* The page: Home (page.tsx) and OnboardingForm                            *)

MaxInFlight == 2

ClientNames == {<< >>, Lit("Acme")}

Industries == {<< >>, Lit("SaaS")}

StrategyA == JObj(<< [k |-> "executiveSummary", v |-> JStr(Lit("Grow"))] >>)

StrategyB == JObj(<< [k |-> "executiveSummary", v |-> JStr(Lit("Focus"))] >>)

\* what fetch("/api/generate-strategy") may settle with: a rejection, the
\* two answers of POST, and answers of a gateway in front of it
ClientAnswers ==
  { [err |-> TRUE, status |-> 0, body |-> [valid |-> FALSE, json |-> JNull]],
    [err |-> FALSE, status |-> 500, body |-> [valid |-> TRUE, json |->
       JObj(<< [k |-> "error", v |-> JStr(GenericErrorBody)] >>)]],
    [err |-> FALSE, status |-> 500, body |-> [valid |-> TRUE, json |-> JObj(<< >>)]],
    [err |-> FALSE, status |-> 502, body |-> [valid |-> FALSE, json |-> JNull]],
    [err |-> FALSE, status |-> 502, body |-> [valid |-> TRUE, json |-> JNull]],
    [err |-> FALSE, status |-> 200, body |-> [valid |-> TRUE, json |->
       JObj(<< [k |-> "strategy", v |-> StrategyA] >>)]],
    [err |-> FALSE, status |-> 200, body |-> [valid |-> TRUE, json |->
       JObj(<< [k |-> "strategy", v |-> StrategyB] >>)]],
    [err |-> FALSE, status |-> 200, body |-> [valid |-> TRUE, json |-> JObj(<< >>)]],
    [err |-> FALSE, status |-> 200, body |-> [valid |-> FALSE, json |-> JNull]],
    [err |-> FALSE, status |-> 200, body |-> [valid |-> TRUE, json |-> JNull]] }

FetchFailedMsg == Lit("Failed to fetch")

JsonSyntaxMsg == Lit("Unexpected token '<' is not valid JSON")

NullReadMsg == Lit("Cannot read properties of null")

SubmitFallbackMsg == Lit("Failed to generate strategy")

\* page.tsx 76-89: the message of the error handleSubmit catches for the
\* answer r, Null when it catches none
SubmitError(r) ==
  IF r.err THEN FetchFailedMsg
  ELSE IF ~r.body.valid THEN JsonSyntaxMsg
  ELSE IF r.body.json.t = "null" THEN NullReadMsg
  ELSE IF ~Ok(r) THEN StrOr(Get(r.body.json, "error"), SubmitFallbackMsg)
  ELSE Null

\* page.tsx 118: the form is rendered while there is no strategy
FormShown == ~JTruthy(strategy)

\* CanSubmit of a button that stays enabled during a submission
CanSubmitWhileLoading == FormShown /\ Truthy(form.clientName) /\ Truthy(form.industry)

\* the submit button of the rendered form is not disabled
\* (disabled={isLoading || !clientName || !industry})
CanSubmit ==
  FormShown /\ ~(isLoading \/ ~Truthy(form.clientName) \/ ~Truthy(form.industry))

server == << process, pc, sub, collectedData, fl, log, lastOut, ops, caught, gen >>

setClientName ==
  /\ FormShown
  /\ \E v \in ClientNames : form' = [form EXCEPT !.clientName = v]
  /\ UNCHANGED << server, strategy, isLoading, error, inFlight, answer >>

setIndustry ==
  /\ FormShown
  /\ \E v \in Industries : form' = [form EXCEPT !.industry = v]
  /\ UNCHANGED << server, strategy, isLoading, error, inFlight, answer >>

\* page.tsx 48-79: handleSubmit up to its await of fetch
handleSubmit ==
  /\ CanSubmit
  /\ inFlight < MaxInFlight
  /\ isLoading' = TRUE
  /\ error' = Null
  /\ inFlight' = inFlight + 1
  /\ UNCHANGED << server, strategy, form, answer >>

\* page.tsx 81-92: the request settles and handleSubmit runs to its end;
\* a strategy that is shown replaces the form, whose state is lost
Settled ==
  /\ inFlight > 0
  /\ \E r \in ClientAnswers :
       /\ answer' = r
       /\ IF SubmitError(r) = Null
          THEN strategy' = Get(r.body.json, "strategy") /\ UNCHANGED error
          ELSE error' = SubmitError(r) /\ UNCHANGED strategy
  /\ isLoading' = FALSE
  /\ inFlight' = inFlight - 1
  /\ form' = IF JTruthy(strategy') THEN EmptyForm ELSE form
  /\ UNCHANGED server

\* page.tsx 95-98, the handler of the button of StrategyOutput
handleReset ==
  /\ ~FormShown
  /\ strategy' = JNull
  /\ error' = Null
  /\ UNCHANGED << server, isLoading, form, inFlight, answer >>

ClientNext == setClientName \/ setIndustry \/ handleSubmit \/ Settled \/ handleReset

SpecClient == Init /\ [][ClientNext]_vars

----------------------------------------------------------------------------
(* The URL classifier on its own: convertToFetchableUrl applied to every   *)
(* URL of UrlSpace                                                         *)

UrlIds == {Id1, Id2}

\* what may follow the identifier in a URL
UrlTails ==
  { << >>, Lit("/edit"), Lit("?usp=sharing"),
    Lit("/view?ref=") \o Lit("docs.google.com") \o Lit("/document/d/") \o Rep("9", 1),
    Lit("/edit?from=") \o Lit("docs.google.com") \o Lit("/presentation/d/") \o Rep("9", 1),
    Lit("?src=") \o Lit("fathom.video") }

UrlOf(host, path, id, tail) == Lit("https://") \o Lit(host) \o Lit(path) \o id \o tail

UrlSpace ==
  { UrlOf(host, path, id, tail) :
      host \in {"docs.google.com", "drive.google.com", "fathom.video", "example.com"},
      path \in {"/document/d/", "/presentation/d/", "/file/d/", "/share/", "/deck/"},
      id \in UrlIds \cup {<< >>},
      tail \in UrlTails }

Classify ==
  /\ pc = "idle"
  /\ \E u \in UrlSpace :
       fl' = [NoCall EXCEPT !.url = u, !.fetchUrl = convertToFetchableUrl(u),
                            !.at = "classified"]
  /\ UNCHANGED << process, pc, sub, collectedData, log, lastOut, ops, caught, gen, client >>

SpecClassifier == Init /\ [][Classify]_vars

----------------------------------------------------------------------------
(* Properties *)

ContentFields == {"meetingTranscript", "auditDeckContent", "websiteContent", "socialContent"}

\* fetchLinkContent has just handed its result to the branch of POST
Returned(caller) == fl.at = "returned" /\ fl.caller = caller

\* C1: whenever a present source (meeting link, audit link, website)
\* answers with a non-success HTTP status, the field of that source holds a
\* bracketed placeholder, a source that answered with success leaves the
\* extracted text in its field, and generateStrategy is still invoked.
C1_PlaceholderForUnreachable ==
  /\ (pc = "audit" /\ Returned("meeting") /\ lastOut = "status")
       => Bracketed(collectedData.meetingTranscript)
  /\ (pc = "website" /\ Returned("audit") /\ lastOut = "status")
       => Bracketed(collectedData.auditDeckContent)
  /\ (pc = "generate" /\ lastOut = "status")
       => Bracketed(collectedData.websiteContent)
  /\ (pc = "generate" /\ lastOut = "ok")
       => ~Bracketed(collectedData.websiteContent)
  /\ (pc = "done" /\ sub # NoSubmission) => prompt # NoPrompt

\* the field caps and the truncation marker the specification documents
TranscriptCap == 15000

DeckCap == 15000

WebsiteCap == 8000

TruncationMarker == Lit("...[truncated]")

FieldCap(f) ==
  CASE f = "meetingTranscript" -> TranscriptCap
    [] f = "auditDeckContent" -> DeckCap
    [] OTHER -> WebsiteCap

\* C2: every text field embedded in the prompt is no longer than its field
\* cap plus the truncation marker.
C2_PromptFieldsBounded ==
  prompt # NoPrompt =>
    \A f \in ContentFields :
      Length(prompt[f]) <= FieldCap(f) + Length(TruncationMarker)

\* C3: a field longer than its cap is rendered into the prompt as its first
\* cap characters followed by "...[truncated]"; a field within its cap is
\* rendered unchanged.
C3_TruncationLaw ==
  prompt # NoPrompt =>
    \A f \in ContentFields :
      Truthy(collectedData[f]) =>
        prompt[f] = IF Length(collectedData[f]) > FieldCap(f)
                    THEN Slice(collectedData[f], FieldCap(f)) \o TruncationMarker
                    ELSE collectedData[f]

\* a failure of the authentication class: no credential, or a message that
\* mentions API key, authentication, unauthorized or 401
AuthPatterns == {"401", "authentication", "API key", "Unauthorized", "unauthorized"}

AuthClass(msg) == \E i \in 1..Len(msg) : msg[i].s \in AuthPatterns

\* C4: POST answers 200 with the strategy on success, 401 on a failure of
\* the authentication class and 500 on every other failure.
C4_StatusByFailureClass ==
  pc = "done" =>
    /\ failure = Null => response.status = 200 /\ response.body = "strategy"
    /\ (failure # Null /\ AuthClass(failure)) => response.status = 401
    /\ (failure # Null /\ ~AuthClass(failure)) => response.status = 500

\* C5: when the audit link is a Google Doc whose export request answers
\* with a non-success status, auditDeckContent is a placeholder containing
\* "Anyone with the link can view".
C5_GoogleDocHint ==
  ( /\ pc = "website"
    /\ Returned("audit")
    /\ fl.fetchUrl = DocsExport(Id1)
    /\ lastOut = "status" )
    => /\ Bracketed(collectedData.auditDeckContent)
       /\ Includes(collectedData.auditDeckContent, "Anyone with the link can view")

DeckOps == {"read:auditDeck", "pdfParse"}

\* what the branch of the uploaded deck can put into auditDeckContent
DeckContents(s) ==
  PdfTexts \cup {DeckErrorPlaceholder, FileUploadedPlaceholder(s.auditDeck)}

InlineProvided(s) ==
  s.meetingRecordingType = Lit("transcript") /\ Truthy(s.meetingRecordingContent)

LinkProvided(s) ==
  s.meetingRecordingType = Lit("link") /\ Truthy(s.meetingRecordingContent)

BinaryProvided(s) == s.meetingRecordingType = Lit("file") /\ s.meetingRecordingFile

MeetingOps == {"fetchLink:meeting", "read:meetingFile", "transcribe"}

\* the meeting branch of POST has ended
MeetingSettled ==
  \/ pc \in {"audit", "website", "generate", "done"}
  \/ pc = "fetchLink" /\ fl.caller = "audit"

\* C7: an inline transcript is taken verbatim, without a link fetch or a
\* transcription; else a link is fetched and meetingTranscript is its
\* result or a placeholder; else an uploaded recording is transcribed and
\* meetingTranscript is the transcription or a placeholder; with none of
\* them meetingTranscript stays null; at most one of the branches runs.
C7_MeetingPolicy ==
  MeetingSettled =>
    /\ InlineProvided(sub) =>
         /\ collectedData.meetingTranscript = sub.meetingRecordingContent
         /\ ops \cap MeetingOps = {}
    /\ (~InlineProvided(sub) /\ LinkProvided(sub)) =>
         /\ ops \cap MeetingOps = {"fetchLink:meeting"}
         /\ collectedData.meetingTranscript # Null
         /\ pc = "audit" =>
              /\ Returned("meeting")
              /\ collectedData.meetingTranscript =
                   IF fl.thrown THEN LinkPlaceholder(sub.meetingRecordingContent)
                   ELSE fl.result
    /\ (~InlineProvided(sub) /\ ~LinkProvided(sub) /\ BinaryProvided(sub)) =>
         /\ "fetchLink:meeting" \notin ops
         /\ "read:meetingFile" \in ops
         /\ collectedData.meetingTranscript \in Transcriptions \cup {TranscribeErrorPlaceholder}
    /\ (~InlineProvided(sub) /\ ~LinkProvided(sub) /\ ~BinaryProvided(sub)) =>
         /\ collectedData.meetingTranscript = Null
         /\ ops \cap MeetingOps = {}

C7_Witness ==
  /\ pc = "audit"
  /\ InlineProvided(sub)
  /\ sub.meetingRecordingFile
  /\ collectedData.meetingTranscript = Hello

\* C8: when the completion returns content without a text block,
\* generateStrategy fails with "No text response" without parsing JSON and
\* POST answers 500 with the generic error.
C8_NoTextBlock ==
  ( /\ pc = "done"
    /\ message.returned
    /\ \A i \in 1..Len(message.content) : message.content[i].type # "text" )
    => /\ failure = NoTextMsg
       /\ "JSON.parse" \notin ops
       /\ response.status = 500
       /\ response.body = "error"
       /\ response.error = GenericErrorBody

C8_Witness ==
  /\ pc = "done"
  /\ message = [returned |-> TRUE, content |-> << ToolBlock >>]
  /\ response.status = 500

\* the operations of the aggregation phase that go to the outside
AggregationOps ==
  {"fetchLink:meeting", "fetchLink:audit", "fetch:website", "read:meetingFile",
   "transcribe", "read:auditDeck", "pdfParse"}

\* a submission with the required fields and an inline transcript only
Scenario1(s) ==
  /\ Truthy(s.clientName) /\ Truthy(s.industry)
  /\ InlineProvided(s)
  /\ ~Truthy(s.auditLink) /\ s.auditDeck = Null
  /\ ~Truthy(s.websiteUrl) /\ ~Truthy(s.socialProfile)

\* C9: for a submission with clientName, industry and an inline transcript
\* T only, the record has meetingTranscript = T and the other content
\* fields null, aggregation makes no outbound request, and the prompt
\* contains "No audit deck provided".
C9_InlineOnlyScenario ==
  (pc = "done" /\ Scenario1(sub)) =>
    /\ collectedData =
         [NoData EXCEPT !.meetingTranscript = sub.meetingRecordingContent]
    /\ ops \cap AggregationOps = {}
    /\ prompt # NoPrompt
    /\ Includes(PromptText(prompt), "No audit deck provided")

C9_Witness ==
  /\ pc = "done"
  /\ Scenario1(sub)
  /\ sub.meetingRecordingContent = Hello
  /\ collectedData.meetingTranscript = Hello
  /\ completions = 1

\* C10: a Google Docs document URL, a Google Slides presentation URL and a
\* Google Drive file URL with resource identifier id are converted to the
\* export or download URL of their kind with the same id.
C10_ExportKeepsId ==
  fl.at = "classified" =>
    \A id \in UrlIds, tail \in UrlTails :
      /\ fl.url = UrlOf("docs.google.com", "/document/d/", id, tail)
           => fl.fetchUrl = DocsExport(id)
      /\ fl.url = UrlOf("docs.google.com", "/presentation/d/", id, tail)
           => fl.fetchUrl = SlidesExport(id)
      /\ fl.url = UrlOf("drive.google.com", "/file/d/", id, tail)
           => fl.fetchUrl = DriveDownload(id)

\* the host of a URL of the form scheme, host, path ...
HostOf(url) == IF Len(url) >= 2 THEN url[2].s ELSE ""

\* the hosts the classifier knows: Google Docs, Google Drive, the recording
\* service
KnownHosts == {"docs.google.com", "drive.google.com", "fathom.video"}

\* C11: the strategy is decided from the host and the path of the URL only:
\* a URL whose host is not docs.google.com, drive.google.com or the
\* recording service is returned unchanged (Generic), even when a Google or
\* recording-service pattern occurs in its query string.
C11_HostAndPathDecide ==
  (fl.at = "classified" /\ HostOf(fl.url) \notin KnownHosts) => fl.fetchUrl = fl.url

\* a failure string of the recording-service path: a bracketed text that
\* mentions "transcript" or "paste"
FailureString(t) ==
  Bracketed(t) /\ (Includes(t, "transcript") \/ Includes(t, "paste"))

RequiredPresent(s) == Truthy(s.clientName) /\ Truthy(s.industry)

\* C13: a submission lacking clientName or industry is rejected without
\* invoking generateStrategy or the completion API, and a submission that
\* carries both never fails before generateStrategy is invoked.
C13_RequiredFields ==
  /\ (sub # NoSubmission /\ ~RequiredPresent(sub))
       => /\ prompt = NoPrompt
          /\ completions = 0
          /\ pc = "done" => response.status \notin {0, 200}
  /\ (pc = "done" /\ sub # NoSubmission /\ RequiredPresent(sub)) => prompt # NoPrompt

\* the first text block of the completion is not valid JSON
MalformedText(m) ==
  /\ m.returned
  /\ FirstText(m.content) # 0
  /\ ~m.content[FirstText(m.content)].valid

\* C14: when the first text block of the completion is not valid JSON,
\* generateStrategy fails with "Invalid strategy format" and the answer of
\* POST carries an excerpt of the raw response in the details of its error.
C14_MalformedCarriesExcerpt ==
  (pc = "done" /\ MalformedText(message))
    => /\ failure = InvalidFormatMsg
       /\ response.status # 200
       /\ Truthy(response.details)

\* the last request of the ended call of fetchLinkContent was the generic
\* one and it was answered with a non-success status
GenericStatusFailure ==
  /\ fl.at = "returned"
  /\ log # << >>
  /\ log[Len(log)].kind = "generic"
  /\ lastOut = "status"

\* C15: in the generic path every non-success status makes fetchLinkContent
\* throw; the reason is the sharing-permissions hint exactly when the host of
\* the submitted URL is a Google domain, and otherwise the message with the
\* HTTP status code.
C15_StatusReason ==
  GenericStatusFailure
    => /\ fl.thrown
       /\ IF HostOf(fl.url) \in GoogleHosts
          THEN fl.result = GoogleMsg
          ELSE \E r \in HttpResponses :
                 ~r.err /\ ~Ok(r) /\ fl.result = FailedMsg(r.status)

\* C16: an uploaded deck whose file name ends in .pdf yields the text of
\* the PDF routine; any other file name yields the placeholder naming the
\* file, without a call of the PDF routine; when reading or extraction
\* throws, auditDeckContent is the error placeholder; in every case the
\* submission goes on to generateStrategy with that content.
C16_DeckExtraction ==
  (pc \in {"website", "generate", "done"} /\ UsesDeck(sub)) =>
    LET content == collectedData.auditDeckContent
    IN  /\ "read:auditDeck" \in ops
        /\ sub.auditDeck = DocxName =>
             /\ "pdfParse" \notin ops
             /\ content \in {FileUploadedPlaceholder(DocxName), DeckErrorPlaceholder}
        /\ sub.auditDeck = PdfName => content \in PdfTexts \cup {DeckErrorPlaceholder}
        /\ (pc = "website" /\ caught # Null) => content = DeckErrorPlaceholder
        /\ (pc = "website" /\ caught = Null /\ sub.auditDeck = PdfName) =>
             content \in PdfTexts /\ "pdfParse" \in ops
        /\ (pc = "website" /\ caught = Null /\ sub.auditDeck = DocxName) =>
             content = FileUploadedPlaceholder(DocxName)
        /\ pc = "done" => prompt.auditDeckContent = content

C16_Witness ==
  /\ pc = "website"
  /\ UsesDeck(sub)
  /\ sub.auditDeck = DocxName
  /\ ops \cap DeckOps = {"read:auditDeck"}
  /\ collectedData.auditDeckContent = FileUploadedPlaceholder(DocxName)

\* C17: for a recording-service link the API endpoints come first, then the
\* recent-calls listing, and the share page is requested only after them:
\* no request of the share page comes before the first endpoint attempt.
C17_ApiBeforePage ==
  \A i \in 1..Len(log) :
    log[i].kind = "page" =>
      /\ \E j \in 1..(i - 1) : log[j].kind = "api"
      /\ \E j \in 1..(i - 1) : log[j].kind = "list"

\* the positions of the endpoint attempts among the requests of the call
ApiIdx == {i \in 1..Len(log) : log[i].kind = "api"}

\* the error of fetchFathomTranscript has become the result of the call
FathomThrew(msg) == fl.at = "returned" /\ fl.result = FathomPlaceholder(msg)

\* the endpoints are tried in the order of EndpointShapes, each at most
\* once; a failed attempt is followed by the next endpoint, the fourth by the
\* listing; an attempt that gives data ends the call; the listing comes only
\* after four failed attempts and is the last request
EndpointSequence ==
  /\ \A i \in ApiIdx :
       /\ log[i].ep = Cardinality({j \in ApiIdx : j <= i})
       /\ log[i].ep \in DOMAIN EndpointShapes
       /\ log[i].ep > 1 => (i - 1) \in ApiIdx
       /\ \A j \in ApiIdx : i < j => log[i].out = "none"
  /\ \A i \in 1..Len(log) :
       log[i].kind = "list" =>
         /\ i = Len(log)
         /\ {log[j].ep : j \in ApiIdx} = 1..NumEndpoints
         /\ \A j \in ApiIdx : log[j].out = "none"
  /\ (log # << >> /\ log[Len(log)].kind = "api") =>
       LET last == log[Len(log)]
       IN  /\ lastOut \in {"status", "neterr"} => last.out = "none"
           /\ last.out = "none" =>
                IF last.ep < NumEndpoints
                THEN fl.at = "api" /\ fl.ep = last.ep + 1
                ELSE fl.at = "list"
           /\ last.out = "data" =>
                fl.at = "returned" /\ ~fl.thrown /\ ~Bracketed(fl.result)

\* C18 as stated: the four endpoint shapes are tried in order, each at most
\* once, a failure leads to the next one, the first success returns at
\* once, the listing comes after four failures, and fetchFathomTranscript
\* throws only after the listing has failed to give a transcript.
C18_ThrowsOnlyAfterListing ==
  /\ EndpointSequence
  /\ (FathomThrew(NoKeyMsg) \/ FathomThrew(CouldNotMsg(fl.id))) =>
       /\ log # << >>
       /\ log[Len(log)].kind = "list"
       /\ log[Len(log)].out = "none"

\* C18 amended: as above when an API key is configured; without a key
\* fetchFathomTranscript throws at once, before any endpoint is requested.
C18_FallbackOrder ==
  /\ EndpointSequence
  /\ FathomThrew(CouldNotMsg(fl.id)) =>
       /\ env.fathomKey
       /\ log # << >>
       /\ log[Len(log)].kind = "list"
       /\ log[Len(log)].out = "none"
  /\ FathomThrew(NoKeyMsg) => (~env.fathomKey /\ ApiIdx = {})
  /\ ~env.fathomKey => ApiIdx = {}
  /\ (fl.at = "returned" /\ log # << >> /\ log[Len(log)].kind = "list") =>
       IF log[Len(log)].out = "none" THEN FathomThrew(CouldNotMsg(fl.id))
       ELSE ~Bracketed(fl.result)

C18_Witness ==
  /\ Returned("meeting")
  /\ fl.url = FathomShareUrl
  /\ Len(log) = NumEndpoints + 2
  /\ log[Len(log)].kind = "list"
  /\ fl.result = FathomPlaceholder(CouldNotMsg(Id2))

----------------------------------------------------------------------------
(* The transcript functions on their own: formatFathomTranscript and       *)
(* findTranscriptInObject applied to values of FormatInputs and FindCases; *)
(* fl.id holds the argument and fl.result the value returned               *)

\* an object wrapping a transcript field
Wrap(x) == JObj(<< [k |-> "transcript", v |-> x] >>)

\* a string that findTranscriptInObject takes for a transcript wherever it
\* stands (longer than 500 characters, with a colon)
LongText == JStr(Lit("Ann") \o Lit(": ") \o Rep("t", 600))

\* a string it takes for a transcript only as a transcript property
MidText == JStr(Rep("t", 300))

FormatShapes ==
  { JStr(Hello), JStr(<< >>), MidText, JArr(<< >>), JArr(<< Entry1 >>),
    JArr(<< Entry1, Entry2 >>), JArr(<< Entry2, Entry1 >>) }

OtherShapes ==
  { JNull, JObj(<< >>), JObj(<< [k |-> "id", v |-> JStr(Lit("c1"))] >>) }

FormatInputs ==
  FormatShapes \cup OtherShapes
    \cup {Wrap(x) : x \in FormatShapes \cup OtherShapes}
    \cup {Wrap(Wrap(x)) : x \in FormatShapes}

Format ==
  /\ pc = "idle"
  /\ fl = NoCall
  /\ \E data \in FormatInputs :
       fl' = [NoCall EXCEPT !.at = "formatted", !.id = data,
                            !.result = formatFathomTranscript(data)]
  /\ UNCHANGED << process, pc, sub, collectedData, log, lastOut, ops, caught, gen, client >>

\* the innermost value of nested transcript wrappers
RECURSIVE Unwrap(_)
Unwrap(data) ==
  IF HasKey(data, "transcript") THEN Unwrap(Get(data, "transcript")) ELSE data

\* the line "[timestamp] speaker: text" of an entry
EntryLine(entry) ==
  Lit("[") \o StrOr(Get(entry, "timestamp"), << >>) \o Lit("] ")
    \o StrOr(Get(Get(entry, "speaker"), "display_name"), Lit("Speaker"))
    \o Lit(": ") \o StrOr(Get(entry, "text"), << >>)

\* the lines of the entries, in the order of the array, joined by newlines
RECURSIVE EntryLines(_)
EntryLines(items) ==
  IF items = << >> THEN << >>
  ELSE EntryLine(items[1])
         \o (IF Len(items) > 1 THEN Lit("\n") \o EntryLines(Tail(items)) ELSE << >>)

\* C19: a bare string is returned unchanged, an array of entries is
\* rendered as the lines "[timestamp] speaker: text" in the array's order,
\* an object wrapping a transcript is unwrapped recursively (two wrappers
\* give the result of the innermost value), and only a value of none of
\* these shapes is serialized as JSON.
C19_FormatShapes ==
  fl.at = "formatted" =>
    LET data  == fl.id
        inner == Unwrap(data)
    IN  /\ inner.t = "str" => fl.result = inner.v
        /\ inner.t = "arr" => fl.result = EntryLines(inner.v)
        /\ (data.t \notin {"str", "arr"} /\ ~HasKey(data, "transcript"))
             => fl.result = Stringify(data, 0)

\* leaf as the property via of an object at level k - 1 below the root,
\* which is reached through the properties "a": the leaf is at level k
RECURSIVE Under(_, _, _)
Under(k, via, leaf) ==
  IF k <= 0 THEN leaf
  ELSE IF k = 1 THEN JObj(<< [k |-> via, v |-> leaf] >>)
  ELSE JObj(<< [k |-> "a", v |-> Under(k - 1, via, leaf)] >>)

\* leaf inside k arrays of one element: the leaf is at level k
RECURSIVE ArrUnder(_, _)
ArrUnder(k, leaf) == IF k <= 0 THEN leaf ELSE JArr(<< ArrUnder(k - 1, leaf) >>)

\* the first k levels of the cyclic object o = {a: o, b: LongText}, with
\* filler where the unfolding stops
RECURSIVE SelfUnfold(_, _)
SelfUnfold(k, filler) ==
  IF k <= 0 THEN filler
  ELSE JObj(<< [k |-> "a", v |-> SelfUnfold(k - 1, filler)],
               [k |-> "b", v |-> LongText] >>)

LongText2 == JStr(Lit("Bob") \o Lit(": ") \o Rep("u", 700))

Leaves == {LongText, MidText, JArr(<< Entry1, Entry2 >>), JNull, JStr(Hello)}

FindCase(kind, obj, level, via, leaf) ==
  [kind |-> kind, obj |-> obj, level |-> level, via |-> via, leaf |-> leaf]

\* values with two matches; leaf is the first one in traversal order (the
\* transcript property of a value is looked at when the value is visited,
\* before its properties are traversed)
OrderCases ==
  { FindCase("order", JArr(<< JStr(Hello), LongText, LongText2 >>), 1, "", LongText),
    FindCase("order", JObj(<< [k |-> "x", v |-> JNull], [k |-> "y", v |-> LongText2],
                              [k |-> "z", v |-> LongText] >>), 1, "", LongText2),
    FindCase("order", JObj(<< [k |-> "x", v |-> JObj(<< [k |-> "y", v |-> LongText] >>)],
                              [k |-> "z", v |-> LongText2] >>), 2, "", LongText),
    FindCase("order", JObj(<< [k |-> "x", v |-> LongText],
                              [k |-> "transcript", v |-> MidText] >>), 1, "", MidText) }

FindCases ==
  { FindCase("chain", Under(k, via, leaf), k, via, leaf) :
      k \in 0..MaxLevel, via \in {"a", "transcript"}, leaf \in Leaves }
    \cup { FindCase("cycle", SelfUnfold(k, filler), k, "a", filler) :
             k \in (MaxDepth + 2)..MaxLevel, filler \in Leaves }
    \cup { FindCase("arrays", ArrUnder(k, leaf), k, "", leaf) :
             k \in {1, MaxDepth, MaxDepth + 1, MaxDepth + 2}, leaf \in {LongText, Entry1} }
    \cup OrderCases
    \cup { FindCase("partial", JObj(<< [k |-> "items", v |-> JArr(<< Entry2, JStr(Hello) >>)] >>),
                     2, "items", Entry2) }

Find ==
  /\ pc = "idle"
  /\ fl = NoCall
  /\ \E c \in FindCases :
       fl' = [NoCall EXCEPT !.at = "found", !.id = c,
                            !.result = findTranscriptInObject(c.obj, 0)]
  /\ UNCHANGED << process, pc, sub, collectedData, log, lastOut, ops, caught, gen, client >>

SpecTranscript == Init /\ [][Format \/ Find]_vars

IsEntry(j) == j.t = "obj" /\ (HasKey(j, "text") \/ HasKey(j, "speaker"))

\* the value contains an object exposing a transcript key, or a non-empty
\* array whose entries each expose speaker/text fields
RECURSIVE ExposesTranscript(_)
ExposesTranscript(j) ==
  \/ HasKey(j, "transcript")
  \/ j.t = "arr" /\ j.v # << >> /\ \A i \in 1..Len(j.v) : IsEntry(j.v[i])
  \/ \E i \in 1..Len(Values(j)) : ExposesTranscript(Values(j)[i])

\* C21: findTranscriptInObject returns a non-null result only for page data
\* that contains an object exposing a transcript key or an array whose
\* entries each expose speaker/text fields; for data with neither (only
\* long strings, or an array of which only the first entry has a text
\* field) it returns null.
C21_OnlyTranscriptShapes ==
  (fl.at = "found" /\ ~ExposesTranscript(fl.id.obj)) => fl.result = Null

\* C22: in every execution of POST the completion API is requested at most
\* once; after a completion failure, a missing text block or a JSON parse
\* failure POST is at its error answer without a further completion
\* request.
C22_NoRetry ==
  /\ completions <= 1
  /\ failure # Null =>
       /\ pc = "done"
       /\ response.status = 500
       /\ response.body = "error"

C22_Witness ==
  /\ pc = "done"
  /\ failure = RateMsg
  /\ completions = 1
  /\ response.status = 500

\* C23: across the POST invocations of one process the completion client
\* is constructed at most once: the module variable is null until the first
\* getAnthropic call that constructs it, every later call returns that
\* same instance, and no invocation, failed or not, resets it to null.
C23_ClientConstructedOnce ==
  [][ /\ anthropic # 0 => anthropic' = anthropic
      /\ anthropic' # anthropic => (pc = "generate" /\ anthropic' = served + 1)
      /\ (pc = "generate" /\ completions' = completions + 1) => anthropic' # 0 ]_vars

C23_Witness ==
  /\ served = 1
  /\ pc = "done"
  /\ anthropic = 1
  /\ completions = 1
  /\ failure # Null

\* the last request of the call was an endpoint attempt
LastIsApi == log # << >> /\ log[Len(log)].kind = "api"

\* the transcript of a body that carries one, else the JSON text of the body
BodyText(json) ==
  LET transcript == Get(json, "transcript")
  IN  IF transcript.t = "str" /\ transcript.v # << >> THEN transcript.v
      ELSE IF transcript.t = "arr" THEN EntryLines(transcript.v)
      ELSE Stringify(json, 0)

\* C24 as stated: the first endpoint that answers with a success status
\* ends the search: the call returns and neither a further endpoint nor the
\* listing is requested.
C24_AnySuccessEndsSearch ==
  (LastIsApi /\ lastOut = "ok") => (fl.at = "returned" /\ ~fl.thrown)

\* C24 amended: the first endpoint that answers with a success status and a
\* body that is JSON other than null ends the search, even when the body
\* carries no transcript: the result is then the JSON text of the body and
\* no further request is made; a success whose body cannot be read counts
\* as a failed attempt and the next endpoint or the listing follows.
C24_ReadableSuccessEndsSearch ==
  LastIsApi =>
    LET last == log[Len(log)]
    IN  /\ last.out = "data" =>
             /\ lastOut = "ok"
             /\ fl.at = "returned"
             /\ ~fl.thrown
             /\ \E b \in ApiBodies :
                  b.valid /\ b.json.t # "null" /\ fl.result = BodyText(b.json)
        /\ (lastOut = "ok" /\ last.out = "none") =>
             fl.at = (IF last.ep < NumEndpoints THEN "api" ELSE "list")

C24_Witness ==
  /\ Returned("meeting")
  /\ LastIsApi
  /\ log[Len(log)].ep = 1
  /\ lastOut = "ok"
  /\ fl.result = Stringify(JObj(<< [k |-> "id", v |-> JStr(Lit("c1"))] >>), 0)

\* the share page of the call carried a call identifier
CallIdFound == log # << >> /\ log[1].kind = "page" /\ log[1].out = "callId"

\* C25: once a call identifier is found in the share page, every later
\* request is an API request with that identifier, none with the share
\* identifier of the URL; the page itself gives no result; and when the
\* lookup fails the call returns the failure placeholder.
C25_CallIdDecides ==
  CallIdFound =>
    /\ \A i \in 2..Len(log) :
         log[i].kind \in {"api", "list"} /\ log[i].id = CallUuid
    /\ fl.at \in {"api", "list"} => fl.id = CallUuid
    /\ fl.at = "returned" =>
         /\ ~fl.thrown
         /\ IF Len(log) = 1
            THEN ~env.fathomKey /\ fl.result = FathomPlaceholder(NoKeyMsg)
            ELSE log[Len(log)].out = "none" =>
                   /\ log[Len(log)].kind = "list"
                   /\ fl.result = FathomPlaceholder(CouldNotMsg(CallUuid))

C25_Witness ==
  /\ CallIdFound
  /\ fl.at = "returned"
  /\ ShareIdOf(log[1].id) # << >>
  /\ Len(log) = NumEndpoints + 2
  /\ log[Len(log)].out = "none"
  /\ fl.result = FathomPlaceholder(CouldNotMsg(CallUuid))

\* the submission that got the answer r ended in the catch of handleSubmit
Failed(r) == r.err \/ ~Ok(r) \/ ~r.body.valid \/ r.body.json.t = "null"

\* C26: isLoading holds exactly while a request is in flight, and there is
\* never more than one; a submission starts with isLoading true and error
\* null; when its request settles isLoading is false again, a failed one
\* has set error and left strategy as it was, a successful one has set
\* strategy to the strategy of the answer and left error null.
C26_ClientState ==
  [][ /\ inFlight' <= 1
      /\ isLoading' <=> inFlight' = 1
      /\ inFlight' > inFlight => (isLoading' /\ error' = Null /\ strategy' = strategy)
      /\ inFlight' < inFlight =>
           /\ ~isLoading'
           /\ IF Failed(answer')
              THEN error' # Null /\ strategy' = strategy
              ELSE error' = Null /\ strategy' = Get(answer'.body.json, "strategy") ]_vars

C26_Witness ==
  /\ answer.status = 500
  /\ isLoading
  /\ inFlight = 1
  /\ error = Null
  /\ strategy = JNull

=============================================================================
